---- MODULE Spec2Model ----
(***************************************************************************)
(* A model of ambassador's #[derive(Delegate)] generator                   *)
(* (src/ambassador/src/derive.rs).  One run of delegate_macro is modelled  *)
(* as a state machine: classification of the declaration, the check for    *)
(* attached #[delegate] attributes, and then, per attribute, the argument  *)
(* parser (DelegateArgs::from_meta), the emission of one block and its     *)
(* push onto impl_macros.  A panic! ends the run without output.           *)
(*                                                                         *)
(* The declaration (shape, generics, attribute list) is drawn in Init.     *)
(* The arguments of each #[delegate(...)] attribute are drawn as the       *)
(* parser reaches them and are recorded in `meta`.                         *)
(***************************************************************************)
EXTENDS Integers, Sequences, FiniteSets, TLC

\* Bounds of the model.
MaxFields == 3       \* variants of an enum / fields of a struct
MaxDirectives == 2   \* attributes attached to the declaration
MaxArgs == 2         \* arguments after the trait path, over the whole declaration

VARIABLES
    input,        \* the DeriveInput
    pc,           \* position in delegate_macro
    implementer,  \* DelegateImplementer
    attr_i,       \* number of delegate attributes already handled by the loop
    meta,         \* syn::Meta of the current attribute, as far as it was read
    args,         \* DelegateArgs of the current attribute
    impl_macro,   \* the block built for the current attribute
    impl_macros,  \* blocks pushed so far
    output,       \* the TokenStream handed back (<<>> until the run returns)
    panic_msg,    \* message of the panic that ended the run
    n_read        \* arguments after the trait path read so far

vars == <<input, pc, implementer, attr_i, meta, args, impl_macro, impl_macros,
          output, panic_msg, n_read>>

----------------------------------------------------------------------------
\* Values

Ok(v) == [ok |-> TRUE, val |-> v]
Panic(m) == [ok |-> FALSE, msg |-> m]

\* An identifier is a tuple of string fragments, so that format_ident! can
\* be modelled as concatenation.
Ident(s) == <<s>>
format_ident(prefix, id) == <<prefix>> \o id

\* syn::Member
Named(id) == [kind |-> "Named", ident |-> id, index |-> 0]
Unnamed(i) == [kind |-> "Unnamed", ident |-> "", index |-> i]

\* syn::WherePredicate  `bounded_ty : bound<bound_args>`
Predicate(ty, bound, bound_args) ==
    [bounded_ty |-> ty, bound |-> bound, bound_args |-> bound_args]

TypeNames == <<"T0", "T1", "T2", "T3", "T4", "T5">>
VariantIdents == <<"V0", "V1", "V2", "V3", "V4", "V5">>
FieldNames == <<"a", "b", "c", "d", "e", "f">>

\* Payload fields of one enum variant: n unnamed fields, the first of the
\* variant's own type.
VariantFields(i, n) ==
    [j \in 1..n |-> [ident |-> <<>>, ty |-> IF j = 1 THEN TypeNames[i] ELSE "X"]]

EnumData ==
    UNION { { [kind |-> "Enum",
               variants |-> [i \in 1..n |->
                               [ident |-> VariantIdents[i],
                                fields |-> VariantFields(i, c[i])]],
               fields |-> <<>>] : c \in [1..n -> 0..2] } : n \in 0..MaxFields }

StructData ==
    { [kind |-> "Struct",
       variants |-> <<>>,
       fields |-> [i \in 1..n |->
                     [ident |-> IF named THEN <<FieldNames[i]>> ELSE <<>>,
                      ty |-> TypeNames[i]]]] :
        n \in 0..MaxFields, named \in BOOLEAN }

UnionData == { [kind |-> "Union", variants |-> <<>>, fields |-> <<>>] }

\* syn::Generics, reduced to its optional where clause (a sequence of zero
\* or one clause).
GenericsSet ==
    { [where_clause |-> <<>>],
      [where_clause |->
          << [predicates |->
                << Predicate("T", <<Ident("Clone")>>, <<>>),
                   Predicate("U", <<Ident("Copy")>>, <<>>) >>] >>] }

\* Attribute paths attached to the declaration.
AttrSeqs ==
    UNION { [1..n -> {"delegate", "doc"}] : n \in 0..MaxDirectives }

DeriveInputs ==
    { [ident |-> "Wrapper", data |-> d, generics |-> g, attrs |-> a] :
        d \in EnumData \cup StructData \cup UnionData,
        g \in GenericsSet,
        a \in AttrSeqs }

----------------------------------------------------------------------------
\* impl From<DeriveInput> for DelegateImplementer

\* The closure applied to each variant: its ident and sole payload type.
VariantPair(n) ==
    IF Len(n.fields) = 0 THEN Panic("enum variant has no fields")
    ELSE IF Len(n.fields) - 1 # 0 THEN Panic("enum variant has multiple fields")
    ELSE Ok(<<n.ident, n.fields[1].ty>>)

\* Vec::pop: the removed element and the remaining vector.
VecPop(v) ==
    IF Len(v) = 0 THEN Panic("enum has no variants")
    ELSE Ok([popped |-> v[Len(v)], rest |-> SubSeq(v, 1, Len(v) - 1)])

FromEnum(inp) ==
    LET variants == inp.data.variants
        pairs == [i \in 1..Len(variants) |-> VariantPair(variants[i])]
        bad == { i \in 1..Len(variants) : ~pairs[i].ok }
    IN  IF bad # {}
        THEN Panic(pairs[CHOOSE i \in bad : \A j \in bad : i <= j].msg)
        ELSE LET variant_idents == [i \in 1..Len(variants) |-> pairs[i].val[1]]
                 variant_types == [i \in 1..Len(variants) |-> pairs[i].val[2]]
                 popped == VecPop(variant_types)
             IN  IF ~popped.ok THEN Panic(popped.msg)
                 ELSE Ok([kind |-> "Enum",
                          variant_idents |-> variant_idents,
                          first_type |-> popped.val.popped,
                          other_types |-> popped.val.rest,
                          generics |-> inp.generics])

FieldMember(i, field) ==
    IF field.ident # <<>> THEN Named(field.ident[1]) ELSE Unnamed(i)

FromStruct(inp) ==
    LET fields == inp.data.fields IN
    IF Len(fields) = 0 THEN Panic("struct has no fields")
    ELSE IF Len(fields) = 1
    THEN Ok([kind |-> "SingleFieldStruct",
             field_ident |-> FieldMember(0, fields[1]),
             field_type |-> fields[1].ty,
             generics |-> inp.generics])
    ELSE Ok([kind |-> "MultiFieldStruct",
             \* enumerate() counts from 0
             fields |-> [i \in 1..Len(fields) |->
                           <<FieldMember(i - 1, fields[i]), fields[i].ty>>],
             generics |-> inp.generics])

From(inp) ==
    CASE inp.data.kind = "Enum" -> FromEnum(inp)
      [] inp.data.kind = "Struct" -> FromStruct(inp)
      [] OTHER -> Panic("ambassador currently only supports #[derive(Delegate)] for enums and structs")

----------------------------------------------------------------------------
\* The arguments of a #[delegate(...)] attribute

PathItem(path) == [kind |-> "Path", path |-> path, lit_kind |-> "None", lit |-> ""]
NameValue(name, lit_kind, lit) ==
    [kind |-> "NameValue", path |-> <<Ident(name)>>, lit_kind |-> lit_kind, lit |-> lit]
ListItem == [kind |-> "List", path |-> <<Ident("cfg")>>, lit_kind |-> "None", lit |-> ""]
LitItem == [kind |-> "Lit", path |-> <<>>, lit_kind |-> "Str", lit |-> "Greet"]

TraitPaths ==
    { <<Ident("Greet")>>,
      <<Ident("a"), Ident("Shout")>>,
      <<Ident("b"), Ident("Shout")>> }

\* What the first argument of an attribute can be.
FirstItems ==
    { PathItem(p) : p \in TraitPaths }
        \cup { NameValue("target", "Str", "b"), ListItem, LitItem }

\* What an argument after the first can be (literal arguments are covered
\* by the lit_later flag of the attribute head, see NestedMetaItems).
LaterItems ==
    { NameValue("target", "Str", s) : s \in {"b", "z", "0", "1", "1x"} }
        \cup { NameValue("target", "Int", "1") }
        \cup { NameValue("where", "Str", s) :
                 s \in {"T: Debug", "U: Eq, V: Ord", "T Debug"} }
        \cup { NameValue("skip", "Str", "x") }
        \cup { ListItem }

\* The head of an attribute: the kind of its meta, its first argument if it
\* has one, and whether some later argument is a literal.
MetaHeads ==
    { [kind |-> k, nested |-> <<>>, lit_later |-> FALSE] :
        k \in {"Err", "Path", "NameValue", "List"} }
        \cup { [kind |-> "List", nested |-> <<f>>, lit_later |-> l] :
                 f \in FirstItems, l \in BOOLEAN }

NoMeta == [kind |-> "None", nested |-> <<>>, lit_later |-> FALSE]

\* syn::Path::is_ident
is_ident(path, s) == path = <<Ident(s)>>

\* LitStr::parse::<syn::Member>: an identifier or an integer index.
DigitValue(s) == CASE s = "0" -> 0 [] s = "1" -> 1 [] s = "2" -> 2 [] OTHER -> -1

ParseMember(s) ==
    IF DigitValue(s) >= 0 THEN Ok(Unnamed(DigitValue(s)))
    ELSE IF s \in {"a", "b", "c", "z"} THEN Ok(Named(s))
    ELSE Panic("Expected ident as value for target")

\* LitStr::parse_with(Punctuated::<WherePredicate, Comma>::parse_terminated)
ParseWherePredicates(s) ==
    CASE s = "T: Debug" ->
            Ok(<< Predicate("T", <<Ident("Debug")>>, <<>>) >>)
      [] s = "U: Eq, V: Ord" ->
            Ok(<< Predicate("U", <<Ident("Eq")>>, <<>>),
                  Predicate("V", <<Ident("Ord")>>, <<>>) >>)
      [] OTHER -> Panic("Expected where clause syntax as value for where")

\* derive.rs lines 106-113: every nested item has to be a Meta.
NestedMetaItems(m) ==
    IF m.lit_later \/ \E i \in 1..Len(m.nested) : m.nested[i].kind = "Lit"
    THEN Panic("Invalid syntax for delegate attribute")
    ELSE Ok(m.nested)

\* from_meta up to the start of the argument loop (lines 100-122), with the
\* parse_meta().unwrap() of line 241 in front.
FromMetaHead(m) ==
    IF m.kind = "Err" THEN Panic("called Result::unwrap() on an Err value")
    ELSE IF m.kind # "List" THEN Panic("Invalid syntax for delegate attribute")
    ELSE LET items == NestedMetaItems(m) IN
         IF ~items.ok THEN Panic(items.msg)
         ELSE IF Len(items.val) = 0 THEN Panic("index out of bounds")
         ELSE IF items.val[1].kind # "Path"
              THEN Panic("First value has to be the Trait name")
         ELSE Ok([trait_path_full |-> items.val[1].path,
                  target |-> <<>>,
                  where_clauses |-> <<>>])

NoArgs == [trait_path_full |-> <<>>, target |-> <<>>, where_clauses |-> <<>>]

\* lines 126-138
ParseTarget(a, name_value) ==
    IF is_ident(name_value.path, "target")
    THEN IF name_value.lit_kind = "Str"
         THEN LET target_val == ParseMember(name_value.lit) IN
              IF ~target_val.ok THEN Panic(target_val.msg)
              ELSE IF a.target # <<>>
                   THEN Panic("target value for delegate attribute can only be specified once")
              ELSE Ok([a EXCEPT !.target = <<target_val.val>>])
         ELSE Panic("delegate attribute values have to be strings")
    ELSE Ok(a)

\* lines 139-148
ParseWhere(a, name_value) ==
    IF is_ident(name_value.path, "where")
    THEN IF name_value.lit_kind = "Str"
         THEN LET where_clause_val == ParseWherePredicates(name_value.lit) IN
              IF ~where_clause_val.ok THEN Panic(where_clause_val.msg)
              ELSE Ok([a EXCEPT !.where_clauses = Append(@, where_clause_val.val)])
         ELSE Panic("delegate attribute values have to be strings")
    ELSE Ok(a)

\* One iteration of the argument loop (lines 123-152).
ParseItem(a, meta_item) ==
    IF meta_item.kind = "NameValue"
    THEN LET t == ParseTarget(a, meta_item) IN
         IF ~t.ok THEN t ELSE ParseWhere(t.val, meta_item)
    ELSE Panic("Invalid syntax for delegate attribute")

----------------------------------------------------------------------------
\* Building one block

RECURSIVE Flatten(_)
Flatten(ss) == IF ss = <<>> THEN <<>> ELSE Head(ss) \o Flatten(Tail(ss))

\* register::macro_name and register::match_name
macro_name(trait_ident) == format_ident("ambassador_impl_", trait_ident)
match_name(trait_ident) == format_ident("Match", trait_ident)

\* get_field without its two checks: it falls back to the first field.
get_field_FirstField(a, field_idents) == Ok(field_idents[1])

\* DelegateArgs::get_field
get_field(a, field_idents) ==
    IF a.target = <<>>
    THEN Panic("target value on #[delegate] attribute has to be specified for structs with multiple fields")
    ELSE LET target == a.target[1]
             found == { i \in 1..Len(field_idents) : field_idents[i][1] = target }
         IN  IF found = {}
             THEN Panic("Unknown field specified as target value in #[delegate] attribute")
             ELSE Ok(field_idents[CHOOSE i \in found : \A j \in found : i <= j])

\* The predicates of the declaration's own where clause.
OwnPredicates(generics) ==
    Flatten([i \in 1..Len(generics.where_clause) |->
                generics.where_clause[i].predicates])

\* generics_for_impl chaining the explicit where clauses before the
\* synthesized predicate.
generics_for_impl_ExplicitFirst(a, impl, ty) ==
    OwnPredicates(impl.generics)
        \o Flatten(a.where_clauses)
        \o << Predicate(ty, a.trait_path_full, <<>>) >>

\* generics_for_impl without the synthesized `ty : trait` predicate.
generics_for_impl_NoTraitBound(a, impl, ty) ==
    OwnPredicates(impl.generics) \o Flatten(a.where_clauses)

\* DelegateArgs::generics_for_impl: the merged where clause.
generics_for_impl(a, impl, ty) ==
    OwnPredicates(impl.generics)
        \o << Predicate(ty, a.trait_path_full, <<>>) >>
        \o Flatten(a.where_clauses)

trait_ident_of(trait_path_full) == trait_path_full[Len(trait_path_full)]

\* delegate_macro, the Enum arm (lines 248-278)
EnumImpl(inp, impl, a) ==
    IF a.target # <<>>
    THEN Panic("target value on #[delegate] attribute can not be specified for enums")
    ELSE LET trait_ident == trait_ident_of(a.trait_path_full)
             merged == generics_for_impl(a, impl, impl.first_type)
             matches == [i \in 1..Len(impl.other_types) |->
                           Predicate(impl.other_types[i],
                                     <<match_name(trait_ident)>>,
                                     <<impl.first_type>>)]
         IN  Ok([mod_name |-> format_ident("ambassador_module_", trait_ident),
                 impl_trait |-> a.trait_path_full,
                 self_ty |-> inp.ident,
                 where_clause |-> merged \o matches,
                 macro_name |-> macro_name(trait_ident),
                 body |-> [form |-> "body_enum",
                           first_type |-> impl.first_type,
                           other_types |-> impl.other_types,
                           variant_idents |-> impl.variant_idents]])

\* The block both struct arms quote (lines 290-294 and 303-307).
StructBlock(inp, impl, a, field_ident, field_type) ==
    LET trait_ident == trait_ident_of(a.trait_path_full) IN
    [mod_name |-> <<>>,
     impl_trait |-> <<trait_ident>>,
     self_ty |-> inp.ident,
     where_clause |-> generics_for_impl(a, impl, field_type),
     macro_name |-> macro_name(trait_ident),
     body |-> [form |-> "body_struct",
               field_type |-> field_type,
               field_ident |-> field_ident]]

\* The SingleFieldStruct arm without its check of `target`.
SingleFieldImpl_NoTargetCheck(inp, impl, a) ==
    Ok(StructBlock(inp, impl, a, impl.field_ident, impl.field_type))

\* delegate_macro, the SingleFieldStruct arm (lines 279-295)
SingleFieldImpl(inp, impl, a) ==
    IF a.target # <<>>
    THEN Panic("target value on #[delegate] attribute can not be specified for structs with a single field")
    ELSE Ok(StructBlock(inp, impl, a, impl.field_ident, impl.field_type))

\* delegate_macro, the MultiFieldStruct arm (lines 296-308)
MultiFieldImpl(inp, impl, a) ==
    LET field == get_field(a, impl.fields) IN
    IF ~field.ok THEN Panic(field.msg)
    ELSE Ok(StructBlock(inp, impl, a, field.val[1], field.val[2]))

ImplMacro(inp, impl, a) ==
    CASE impl.kind = "Enum" -> EnumImpl(inp, impl, a)
      [] impl.kind = "SingleFieldStruct" -> SingleFieldImpl(inp, impl, a)
      [] impl.kind = "MultiFieldStruct" -> MultiFieldImpl(inp, impl, a)

----------------------------------------------------------------------------
\* The run of delegate_macro

Unset == [kind |-> "Unset"]
NoBlock == [mod_name |-> <<>>]

\* input.attrs filtered by path.is_ident("delegate") (lines 229-233)
DelegateAttributes(inp) == SelectSeq(inp.attrs, LAMBDA n : n = "delegate")

Init ==
    /\ input \in DeriveInputs
    /\ pc = "start"
    /\ implementer = Unset
    /\ attr_i = 0
    /\ meta = NoMeta
    /\ args = NoArgs
    /\ impl_macro = NoBlock
    /\ impl_macros = <<>>
    /\ output = <<>>
    /\ panic_msg = ""
    /\ n_read = 0

\* A panic that hands back the blocks built so far.
Abort_Flush(msg) ==
    /\ pc' = "panic"
    /\ panic_msg' = msg
    /\ output' = impl_macros

\* A panic! unwinds the run: nothing is handed back.
Abort(msg) ==
    /\ pc' = "panic"
    /\ panic_msg' = msg
    /\ output' = <<>>

\* line 226: let implementer = input.clone().into();
Classify ==
    /\ pc = "start"
    /\ LET r == From(input) IN
       IF r.ok
       THEN /\ implementer' = r.val
            /\ pc' = "attrs"
            /\ UNCHANGED <<output, panic_msg>>
       ELSE /\ Abort(r.msg)
            /\ UNCHANGED implementer
    /\ UNCHANGED <<input, attr_i, meta, args, impl_macro, impl_macros, n_read>>

\* lines 229-238
CollectAttributes ==
    /\ pc = "attrs"
    /\ IF Len(DelegateAttributes(input)) = 0
       THEN Abort("No #[delegate] attribute specified")
       ELSE /\ pc' = "from_meta"
            /\ UNCHANGED <<output, panic_msg>>
    /\ UNCHANGED <<input, implementer, attr_i, meta, args, impl_macro,
                   impl_macros, n_read>>

\* from_meta keeping the where clauses collected for the attribute before.
FromMeta_KeepWhere ==
    /\ pc = "from_meta"
    /\ attr_i < Len(DelegateAttributes(input))
    /\ \E m \in MetaHeads :
         /\ meta' = m
         /\ LET r == FromMetaHead(m) IN
            IF r.ok
            THEN /\ args' = [r.val EXCEPT !.where_clauses = args.where_clauses]
                 /\ pc' = "args"
                 /\ UNCHANGED <<output, panic_msg>>
            ELSE /\ Abort(r.msg)
                 /\ UNCHANGED args
    /\ UNCHANGED <<input, implementer, attr_i, impl_macro, impl_macros, n_read>>

\* lines 240-242 and from_meta up to its argument loop
FromMeta ==
    /\ pc = "from_meta"
    /\ attr_i < Len(DelegateAttributes(input))
    /\ \E m \in MetaHeads :
         /\ meta' = m
         /\ LET r == FromMetaHead(m) IN
            IF r.ok
            THEN /\ args' = r.val
                 /\ pc' = "args"
                 /\ UNCHANGED <<output, panic_msg>>
            ELSE /\ Abort(r.msg)
                 /\ UNCHANGED args
    /\ UNCHANGED <<input, implementer, attr_i, impl_macro, impl_macros, n_read>>

\* one iteration of the loop of lines 123-152
ParseArg ==
    /\ pc = "args"
    /\ n_read < MaxArgs
    /\ \E meta_item \in LaterItems :
         /\ meta' = [meta EXCEPT !.nested = Append(@, meta_item)]
         /\ LET r == ParseItem(args, meta_item) IN
            IF r.ok
            THEN /\ args' = r.val
                 /\ UNCHANGED <<pc, output, panic_msg>>
            ELSE /\ Abort(r.msg)
                 /\ UNCHANGED args
    /\ n_read' = n_read + 1
    /\ UNCHANGED <<input, implementer, attr_i, impl_macro, impl_macros>>

\* the loop is exhausted: from_meta returns (lines 154-158)
EndArgs ==
    /\ pc = "args"
    /\ pc' = "emit"
    /\ UNCHANGED <<input, implementer, attr_i, meta, args, impl_macro,
                   impl_macros, output, panic_msg, n_read>>

\* lines 243-309: let impl_macro = match &implementer { ... };
Emit ==
    /\ pc = "emit"
    /\ LET r == ImplMacro(input, implementer, args) IN
       IF r.ok
       THEN /\ impl_macro' = r.val
            /\ pc' = "push"
            /\ UNCHANGED <<output, panic_msg>>
       ELSE /\ Abort(r.msg)
            /\ UNCHANGED impl_macro
    /\ UNCHANGED <<input, implementer, attr_i, meta, args, impl_macros, n_read>>

\* line 310 and the step of the for loop
Push ==
    /\ pc = "push"
    /\ impl_macros' = Append(impl_macros, impl_macro)
    /\ attr_i' = attr_i + 1
    /\ pc' = IF attr_i + 1 < Len(DelegateAttributes(input))
             THEN "from_meta" ELSE "expand"
    /\ UNCHANGED <<input, implementer, meta, args, impl_macro, output,
                   panic_msg, n_read>>

\* lines 313-319
Expand ==
    /\ pc = "expand"
    /\ output' = impl_macros
    /\ pc' = "done"
    /\ UNCHANGED <<input, implementer, attr_i, meta, args, impl_macro,
                   impl_macros, panic_msg, n_read>>

Next ==
    \/ Classify
    \/ CollectAttributes
    \/ FromMeta
    \/ ParseArg
    \/ EndArgs
    \/ Emit
    \/ Push
    \/ Expand

Spec == Init /\ [][Next]_vars

----------------------------------------------------------------------------
\* Properties

Range(s) == { s[i] : i \in DOMAIN s }
Count(x, s) == Cardinality({ i \in DOMAIN s : s[i] = x })
SameElements(s, t) ==
    /\ Len(s) = Len(t)
    /\ \A x \in Range(s) \cup Range(t) : Count(x, s) = Count(x, t)

\* The declaration as written: payload type and identifier of each variant,
\* selector and type of each field.
DeclaredPayloadTypes == [i \in 1..Len(input.data.variants) |->
                            input.data.variants[i].fields[1].ty]
DeclaredVariantIdents == [i \in 1..Len(input.data.variants) |->
                            input.data.variants[i].ident]
DeclaredSelector(i) ==
    IF input.data.fields[i].ident # <<>>
    THEN Named(input.data.fields[i].ident[1])
    ELSE Unnamed(i - 1)
DeclaredOwnPredicates ==
    IF input.generics.where_clause = <<>> THEN <<>>
    ELSE input.generics.where_clause[1].predicates

\* The current attribute as written: its arguments after the trait path.
LaterArgs == SubSeq(meta.nested, 2, Len(meta.nested))
IsTargetArg(item) == item.kind = "NameValue" /\ item.path = <<Ident("target")>>
IsWhereArg(item) == item.kind = "NameValue" /\ item.path = <<Ident("where")>>
CarriesTarget == \E i \in DOMAIN LaterArgs : IsTargetArg(LaterArgs[i])
RECURSIVE WrittenWhere(_)
WrittenWhere(items) ==
    IF items = <<>> THEN <<>>
    ELSE (IF IsWhereArg(Head(items))
          THEN ParseWherePredicates(Head(items).lit).val ELSE <<>>)
         \o WrittenWhere(Tail(items))

BlockBuilt == pc = "push"
IsEnum == implementer.kind = "Enum"
IsSingle == implementer.kind = "SingleFieldStruct"
IsMulti == implementer.kind = "MultiFieldStruct"

\* The matching-relation constraints `Ti : Match<canonical>` for the given
\* canonical type and other types.
MatchPredicates(canonical, others) ==
    [i \in 1..Len(others) |->
        Predicate(others[i],
                  <<format_ident("Match", trait_ident_of(args.trait_path_full))>>,
                  <<canonical>>)]
Supplementary == Flatten(args.where_clauses)

\* C1: for an enum with payload types T0..Tn-1, classification makes T0 the
\* canonical type and keeps T1..Tn-1 in order as other_types, so the types
\* handed to the body template line up with the variant identifiers, and the
\* matching constraints are exactly Ti : Match<T0> for i > 0.
C1_CanonicalIsFirstVariant ==
    (BlockBuilt /\ IsEnum) =>
        /\ implementer.first_type = DeclaredPayloadTypes[1]
        /\ implementer.other_types = Tail(DeclaredPayloadTypes)
        /\ <<impl_macro.body.first_type>> \o impl_macro.body.other_types
               = DeclaredPayloadTypes
        /\ impl_macro.body.variant_idents = DeclaredVariantIdents
        /\ \A p \in Range(impl_macro.where_clause) :
              p.bound_args # <<>> =>
                 p \in Range(MatchPredicates(DeclaredPayloadTypes[1],
                                             Tail(DeclaredPayloadTypes)))
        /\ \A p \in Range(MatchPredicates(DeclaredPayloadTypes[1],
                                          Tail(DeclaredPayloadTypes))) :
              Count(p, impl_macro.where_clause) = 1

\* The type whose `type : interface` predicate the block carries.
DelegatedType ==
    IF IsEnum THEN impl_macro.body.first_type ELSE impl_macro.body.field_type
DelegationPredicates ==
    IF IsEnum
    THEN MatchPredicates(impl_macro.body.first_type, impl_macro.body.other_types)
    ELSE << Predicate(impl_macro.body.field_type, args.trait_path_full, <<>>) >>

C3_MultiFieldTarget ==
    (BlockBuilt /\ input.data.kind = "Struct" /\ Len(input.data.fields) >= 2) =>
        /\ CarriesTarget
        /\ args.target # <<>>
        /\ \E i \in 1..Len(input.data.fields) :
              /\ DeclaredSelector(i) = args.target[1]
              /\ impl_macro.body.form = "body_struct"
              /\ impl_macro.body.field_ident = DeclaredSelector(i)
              /\ impl_macro.body.field_type = input.data.fields[i].ty
              /\ \A j \in 1..Len(input.data.fields) :
                    (\E p \in Range(impl_macro.where_clause) :
                        p.bounded_ty = input.data.fields[j].ty) <=> j = i

C3_Witness ==
    /\ BlockBuilt /\ IsMulti
    /\ impl_macro.body.field_ident = Unnamed(1)
    /\ impl_macro.body.field_type = "T1"

\* The number of #[delegate] attributes written on the declaration, and
\* whether the declaration has a supported shape.
WrittenDirectives ==
    Cardinality({ i \in DOMAIN input.attrs : input.attrs[i] = "delegate" })
SupportedShape ==
    \/ /\ input.data.kind = "Enum"
       /\ Len(input.data.variants) >= 1
       /\ \A i \in DOMAIN input.data.variants :
             Len(input.data.variants[i].fields) = 1
    \/ /\ input.data.kind = "Struct"
       /\ Len(input.data.fields) >= 1

\* C4: on an enum or a single-field struct a directive that carries a
\* `target` argument never gets a block (generation fails, whatever the
\* target value and the other arguments are); a directive without `target`
\* gets a block that forwards to the sole field (struct) or dispatches over
\* the declared variants (enum).
C4_TargetForbidden ==
    (IsEnum \/ IsSingle) =>
        /\ CarriesTarget => (pc \in {"args", "emit", "panic"} /\ output = <<>>)
        /\ (pc = "emit" /\ ~CarriesTarget) => ImplMacro(input, implementer, args).ok
        /\ BlockBuilt =>
              /\ ~CarriesTarget
              /\ IsSingle =>
                    /\ impl_macro.body.form = "body_struct"
                    /\ impl_macro.body.field_ident = DeclaredSelector(1)
                    /\ impl_macro.body.field_type = input.data.fields[1].ty
              /\ IsEnum =>
                    /\ impl_macro.body.form = "body_enum"
                    /\ impl_macro.body.variant_idents = DeclaredVariantIdents
                    /\ SameElements(<<impl_macro.body.first_type>>
                                        \o impl_macro.body.other_types,
                                    DeclaredPayloadTypes)

\* a `target` naming the sole field of a single-field struct was rejected
C4_Witness ==
    /\ pc = "panic" /\ IsSingle
    /\ panic_msg = "target value on #[delegate] attribute can not be specified for structs with a single field"
    /\ \E i \in DOMAIN LaterArgs :
          /\ IsTargetArg(LaterArgs[i])
          /\ ParseMember(LaterArgs[i].lit) = Ok(DeclaredSelector(1))

\* C5: the directive parser accepts an argument list only if the first
\* argument is a plain path and every later argument is a name/value pair
\* named `target` or `where` with a string value, `target` at most once.
C5_OnlyTargetAndWhereAccepted ==
    pc \in {"emit", "push"} =>
        /\ meta.kind = "List"
        /\ Len(meta.nested) >= 1
        /\ meta.nested[1].kind = "Path"
        /\ \A i \in DOMAIN LaterArgs :
              /\ IsTargetArg(LaterArgs[i]) \/ IsWhereArg(LaterArgs[i])
              /\ LaterArgs[i].lit_kind = "Str"
        /\ Cardinality({ i \in DOMAIN LaterArgs : IsTargetArg(LaterArgs[i]) }) <= 1

\* The current directive as written, read independently of the parser's
\* state: its targets and its where clauses, in argument order.
RECURSIVE WrittenTargets(_)
WrittenTargets(items) ==
    IF items = <<>> THEN <<>>
    ELSE (IF IsTargetArg(Head(items))
          THEN <<ParseMember(Head(items).lit).val>> ELSE <<>>)
         \o WrittenTargets(Tail(items))
RECURSIVE WrittenWhereClauses(_)
WrittenWhereClauses(items) ==
    IF items = <<>> THEN <<>>
    ELSE (IF IsWhereArg(Head(items))
          THEN <<ParseWherePredicates(Head(items).lit).val>> ELSE <<>>)
         \o WrittenWhereClauses(Tail(items))
OwnDirective ==
    [trait_path_full |-> meta.nested[1].path,
     target |-> WrittenTargets(LaterArgs),
     where_clauses |-> WrittenWhereClauses(LaterArgs)]

\* C6: k directives that all succeed yield k blocks in directive order; each
\* block is determined by the implementer description and its own directive
\* (nothing of an earlier directive enters it), and a block once pushed is
\* never changed by the directives after it.
C6_IndependentBlocks ==
    /\ [](BlockBuilt =>
            impl_macro = ImplMacro(input, From(input).val, OwnDirective).val)
    /\ [][\/ impl_macros' = impl_macros
          \/ BlockBuilt /\ impl_macros' = Append(impl_macros, impl_macro)]_vars
    /\ [](pc = "done" =>
            output = impl_macros /\ Len(output) = WrittenDirectives)

C6_Witness ==
    /\ pc = "done"
    /\ Len(output) = 2
    /\ output[1].impl_trait # output[2].impl_trait
    /\ Len(output[1].where_clause) > Len(output[2].where_clause)

\* C7: no two directives of a declaration whose interface paths differ get
\* the same scope (module) name.
C7_ScopesDistinct ==
    pc = "done" =>
        \A i, j \in DOMAIN output :
            (i # j /\ output[i].mod_name # <<>> /\ output[j].mod_name # <<>>
                   /\ output[i].impl_trait # output[j].impl_trait)
                => output[i].mod_name # output[j].mod_name

\* C8: output is handed back only after every directive was processed
\* successfully; a failed classification, a declaration without directive
\* or a failing directive at any position leaves no block in the output,
\* not even the blocks built for earlier directives.
C8_AllOrNothing ==
    /\ output # <<>> =>
          /\ pc = "done"
          /\ output = impl_macros
          /\ Len(output) = WrittenDirectives
    /\ pc = "done" => output # <<>>
    /\ pc = "panic" => output = <<>>
    /\ (WrittenDirectives = 0 \/ ~SupportedShape) => pc \in {"start", "attrs", "panic"}

\* a later directive failed after a block had been built
C8_Witness ==
    /\ pc = "panic"
    /\ Len(impl_macros) >= 1
    /\ output = <<>>

C10_HeaderIsFullPath ==
    BlockBuilt =>
        /\ impl_macro.impl_trait = args.trait_path_full
        /\ Predicate(DelegatedType, impl_macro.impl_trait, <<>>)
              \in Range(impl_macro.where_clause)

====
